---- MODULE Spec2Model ----
(***************************************************************************)
(* Child-process subsystem of textadept_gtk.c: struct Process, spawn(),    *)
(* read_channel(), cleanup_process(), proc_exited(), wait_process(),       *)
(* read_process_output(), write_process_input(), close_process_input(),    *)
(* kill_process().                                                         *)
(*                                                                         *)
(* The program is one thread running a GLib main loop.  The state is the   *)
(* Process records, the event-loop sources that carry a record as user     *)
(* data, the descriptor table of the parent, and the operating-system      *)
(* side: the children and the bytes held in their pipes.                   *)
(***************************************************************************)
EXTENDS Integers, Sequences, FiniteSets, TLC

\* ------------------------------------------------------------------ bounds
NumProcs == 2       \* Process records the caller allocates
BUFSIZ == 2         \* chunk size of read_channel (scaled down from <stdio.h>)
MaxOps == 3         \* calls of the exported operations after the spawns
MaxWrite == 2       \* bytes the caller writes to one child over its lifetime
LUAL_BUFFERSIZE == 8 \* initial size of a luaL_Buffer (scaled down from luaconf.h)
MaxEnv == 3         \* entries of the environment table given to spawn()
MaxOut == 3         \* bytes a child of the read_process_output runs writes
SIZE_MAX == 255     \* largest size_t (scaled down)
MaxReads == 2       \* calls of read_process_output on one handle

\* ------------------------------------------------------- program constants
SIGKILL == 9
CR == 13            \* '\r'
LF == 10            \* '\n'
Unset == -1         \* a field of struct Process that nothing has stored to yet

Procs == 1..NumProcs
Bytes == {1, 2}
NoProc == 0

\* The ends of the pipes: "stdin", "stdout", "stderr" are the three a Process
\* keeps; the others are the child-side handles the Windows branch of spawn()
\* creates with CreatePipe.
ChildEnds == {"stdin_read", "stdout_write", "stderr_write"}

VARIABLES
  win32,     \* the build: TRUE for the _WIN32 branches, FALSE for POSIX
  parentUp,  \* the program itself is running
  st,        \* per record: "unused", "failed" (spawn returned false), "spawned"
  error,     \* per record: *error as spawn() left it ("" = not set)
  proc,      \* per record: struct Process
  watches,   \* event-loop sources: <<record, "stdout" | "stderr" | "child">>
  fdtab,     \* open descriptors of the parent: [fd, p, end]
  child,     \* per record: the child process as the OS sees it
  pipe,      \* per record: bytes in the kernel pipes [in, out, err]
  rc,        \* the read_channel call in progress, or NoRc
  waiting,   \* the record whose wait_process is blocked in waitpid, or NoProc
  sink,      \* per record: the chunks passed to process_output, in order
  exited,    \* per record: the statuses passed to process_exited, in order
  closes,    \* per record: close() calls issued on each of its three fields
  hist,      \* per record: what the caller did to it (for the properties)
  written,   \* per record: the bytes write_process_input put into its stdin pipe
  ops,       \* exported operations called so far
  args,      \* per record: the cmd ("ok" or "malformed") and envi spawn() was given
  envp,      \* per record: the environment its child was created with
  signals,   \* per record: <<pid, signal, sig>>: kill(pid, sig) of kill_process(proc, signal)
  cbuf,      \* per record: the GIOChannel cstdout: use_buffer and read_buf
  reads,     \* per record: what the calls of read_process_output returned
  find_history \* the GtkListStore of the find entry: its texts, oldest first

vars == <<win32, parentUp, st, error, proc, watches, fdtab, child, pipe, rc,
          waiting, sink, exited, closes, hist, written, ops, args, envp, signals,
          cbuf, reads, find_history>>

NoRc == [p |-> NoProc, k |-> "", hup |-> FALSE, len |-> Unset]

\* A channel as new_channel leaves it: unbuffered, nothing read ahead.
NoBuf == [use_buffer |-> FALSE, read_buf |-> <<>>]

\* The environment of the program itself.
Environ == {"HOME=/", "PATH=/bin"}

\* The Lua table at stack index envi: t, its array part, a list of
\* "KEY=VALUE" strings, and h, the values it holds under other keys, in the
\* order lua_next yields them (the array part first); index 0 when the caller
\* gives none.
NoEnvi == [index |-> 0, t |-> <<>>, h |-> <<>>]
Range(t) == {t[i] : i \in 1..Len(t)}

\* Programs a child may run.
\*   echo : writes out to stdout and err to stderr, then exits with code
\*   cat  : copies stdin to stdout, exits with code at end of input
\*   sleep: long-running, ends only by a signal
Prog(kind, out, err, code) == [kind |-> kind, out |-> out, err |-> err, code |-> code]
NoChild ==
  [state |-> "none", prog |-> Prog("", <<>>, <<>>, 0), nout |-> 0, nerr |-> 0,
   how |-> <<"", 0>>]

\* ------------------------------------------------------ wait status (POSIX)
\* <sys/wait.h>: a normal exit with code c is reported as c << 8, a death by
\* signal s as s.
WaitStatus(how) == IF how[1] = "exit" THEN how[2] * 256 ELSE how[2]
WIFEXITED(status) == status % 128 = 0
WEXITSTATUS(status) == (status \div 256) % 256

\* What an int that was never assigned may hold.
Indeterminate == {0, 1, 3 * 256}

\* ------------------------------------------------------- descriptor table
Used(tab) == {e.fd : e \in tab}
LowestFree(tab) ==
  CHOOSE f \in 1..(Cardinality(tab) + 1) :
    f \notin Used(tab) /\ \A g \in 1..(f - 1) : g \in Used(tab)
Open(tab, p, end) == tab \cup {[fd |-> LowestFree(tab), p |-> p, end |-> end]}
FdOf(tab, p, end) == (CHOOSE e \in tab : e.p = p /\ e.end = end).fd
IsOpen(tab, fd) == fd \in Used(tab)
Close(tab, fd) == {e \in tab : e.fd # fd}
\* The endpoint a descriptor number refers to now.
Target(tab, fd) == CHOOSE e \in tab : e.fd = fd

ReaderOpen(tab, p, end) == \E e \in tab : e.p = p /\ e.end = end
\* The child holds the other ends of its pipes for as long as it runs.
ChildRunning(p) == child[p].state = "running"

Idle == parentUp /\ rc = NoRc /\ waiting = NoProc

Init ==
  /\ win32 \in BOOLEAN
  /\ parentUp = TRUE
  /\ st = [p \in Procs |-> "unused"]
  /\ error = [p \in Procs |-> ""]
  /\ proc = [p \in Procs |->
       [pid |-> Unset, fstdin |-> Unset, fstdout |-> Unset, fstderr |-> Unset,
        exit_status |-> Unset]]
  /\ watches = {}
  /\ fdtab = {}
  /\ child = [p \in Procs |-> NoChild]
  /\ pipe = [p \in Procs |-> [in |-> <<>>, out |-> <<>>, err |-> <<>>]]
  /\ rc = NoRc
  /\ waiting = NoProc
  /\ sink = [p \in Procs |-> <<>>]
  /\ exited = [p \in Procs |-> <<>>]
  /\ closes = [p \in Procs |-> [fstdin |-> 0, fstdout |-> 0, fstderr |-> 0]]
  /\ hist = [p \in Procs |-> {}]
  /\ written = [p \in Procs |-> <<>>]
  /\ ops = 0
  /\ args = [p \in Procs |-> [cmd |-> "", envi |-> NoEnvi]]
  /\ envp = [p \in Procs |-> {}]
  /\ signals = [p \in Procs |-> {}]
  /\ cbuf = [p \in Procs |-> NoBuf]
  /\ reads = [p \in Procs |-> <<>>]
  /\ find_history = <<>>

\* ------------------------------------------------------------------ spawn
Progs ==
  {Prog("echo", <<1>>, <<>>, 0), Prog("echo", <<>>, <<2>>, 1),
   Prog("cat", <<>>, <<>>, 3), Prog("sleep", <<>>, <<>>, 0)}

\* (mutant) the watch added whether asked for or not.
new_channel_watching(ws, p, k, watch) == ws \cup {<<p, k>>}

\* new_channel(): the channel reads fd; with watch, an event-loop source that
\* calls read_channel with the record as user data is added.
new_channel(ws, p, k, watch) == IF watch THEN ws \cup {<<p, k>>} ELSE ws

\* The three CreatePipe calls of the Windows branch, in the code's order.
CreatePipes(tab, p) ==
  Open(Open(Open(Open(Open(Open(tab, p, "stdin_read"), p, "stdin"),
    p, "stdout"), p, "stdout_write"), p, "stderr"), p, "stderr_write")

\* CloseHandle(stdin_read), CloseHandle(stdout_write), CloseHandle(stderr_write)
CloseChildEnds(tab, p) == {e \in tab : ~(e.p = p /\ e.end \in ChildEnds)}

\* g_spawn_async_with_pipes() keeps the parent's three ends open and has
\* closed the child's ends in the parent when it returns.
SpawnPipes(tab, p) == Open(Open(Open(tab, p, "stdin"), p, "stdout"), p, "stderr")

\* (mutant) a failed spawn() that goes on to add the child watch.
SpawnFailedWatching(p, msg, tab) ==
  /\ st' = [st EXCEPT ![p] = "failed"]
  /\ error' = [error EXCEPT ![p] = msg]
  /\ fdtab' = tab
  /\ proc' = proc
  /\ watches' = watches \cup {<<p, "child">>}
  /\ UNCHANGED <<child, hist>>

\* (mutant) a spawn() that makes the pipes before it looks at cmd.
SpawnFailedPipes(p, msg, tab) ==
  /\ st' = [st EXCEPT ![p] = "failed"]
  /\ error' = [error EXCEPT ![p] = msg]
  /\ fdtab' = SpawnPipes(tab, p)
  /\ proc' = proc
  /\ UNCHANGED <<watches, child, hist>>

\* spawn() returning false: *error is set and nothing else is done.
\* tab is the descriptor table as the failed attempt leaves it.
SpawnFailed(p, msg, tab) ==
  /\ st' = [st EXCEPT ![p] = "failed"]
  /\ error' = [error EXCEPT ![p] = msg]
  /\ fdtab' = tab
  /\ proc' = IF ReaderOpen(tab, p, "stdin")
               THEN [proc EXCEPT ![p].fstdin = FdOf(tab, p, "stdin")]
               ELSE proc
  /\ UNCHANGED <<watches, child, hist>>

\* spawn() past process creation: the record is filled in, the channels are
\* made and the child watch is added.
SpawnStarted(p, tab, monitor_stdout, monitor_stderr, prog) ==
  /\ st' = [st EXCEPT ![p] = "spawned"]
  /\ fdtab' = tab
  /\ proc' = [proc EXCEPT ![p].pid = p,
                          ![p].fstdin = FdOf(tab, p, "stdin"),
                          ![p].fstdout = FdOf(tab, p, "stdout"),
                          ![p].fstderr = FdOf(tab, p, "stderr")]
  /\ child' = [child EXCEPT ![p] = [NoChild EXCEPT !.state = "running", !.prog = prog]]
  /\ watches' = new_channel(new_channel(watches, p, "stdout", monitor_stdout),
                            p, "stderr", monitor_stderr) \cup {<<p, "child">>}
  /\ hist' = [hist EXCEPT ![p] =
       (IF monitor_stdout THEN {"monitor_stdout"} ELSE {})
         \cup (IF monitor_stderr THEN {"monitor_stderr"} ELSE {})]
  /\ UNCHANGED error

\* int envc = envi ? lua_rawlen(L, envi) : 0: the length of the array part.
envc(envi) == IF envi.index # 0 THEN Len(envi.t) ELSE 0

\* The writes envp[i] = ... of the loop: one for every pair lua_next yields,
\* i running from 0.
EnvWrites(envi) == IF envi.index # 0 THEN Len(envi.t) + Len(envi.h) ELSE 0

\* char *envp[envc + 1]: a write at an index above envc is outside the array.
EnvpOverrun(envi) == EnvWrites(envi) > envc(envi) + 1

\* The POSIX branch: envp[i] is the i-th value lua_next yields, envp[envc] is
\* then set to NULL, and g_spawn_async_with_pipes is given envi ? envp : NULL
\* (NULL: the child inherits).  The child gets the entries before envp[envc];
\* after a write outside the array what the array holds is indeterminate.
EnvpPosix(envi) ==
  IF envi.index = 0 THEN {Environ}
  ELSE IF EnvpOverrun(envi) THEN {Range(envi.t), {}}
  ELSE {Range(envi.t)}

RECURSIVE BlockSize(_)
\* The bytes the loop of the Windows branch adds to its luaL_Buffer: every
\* value and its '\0'.
BlockSize(t) == IF t = <<>> THEN 0 ELSE Len(Head(t)) + 1 + BlockSize(Tail(t))

\* The Windows branch: the block CreateProcessA is given.  luaL_addstring and
\* luaL_addchar are called with the key and the value of lua_next on the
\* stack above the buffer; that is harmless while the buffer keeps to its
\* initial LUAL_BUFFERSIZE bytes, and undefined once it has to grow (the
\* buffer then takes or loses a stack slot that is not its own): the block
\* holds the entries or it does not.
EnvpWin32(envi) ==
  IF envi.index = 0 THEN {Environ}
  ELSE IF BlockSize(envi.t \o envi.h) <= LUAL_BUFFERSIZE THEN {Range(envi.t \o envi.h)}
  ELSE {Range(envi.t \o envi.h), {}}

\* bool spawn(L, proc, index, cmd, cwd, envi, monitor_stdout, monitor_stderr, error)
\* The caller takes the records in turn: after a failed spawn it may try
\* again with the next record.
\*   parseOk : g_shell_parse_argv accepts cmd (the POSIX branch parses,
\*             the Windows branch hands cmd to cmd.exe unparsed)
\*   createOk: the OS creates the process
spawn(p, parseOk, envi, createOk, monitor_stdout, monitor_stderr, prog) ==
  /\ Idle
  /\ st[p] = "unused"
  /\ \A q \in 1..(p - 1) : st[q] # "unused"
  /\ args' = [args EXCEPT ![p] =
       [cmd |-> IF parseOk THEN "ok" ELSE "malformed", envi |-> envi]]
  /\ IF (IF win32 THEN createOk ELSE parseOk /\ createOk)
       THEN \E e \in (IF win32 THEN EnvpWin32(envi) ELSE EnvpPosix(envi)) :
              envp' = [envp EXCEPT ![p] = e]
       ELSE envp' = envp
  /\ IF ~win32
       THEN IF ~parseOk THEN SpawnFailed(p, "parse", fdtab)
            ELSE IF ~createOk THEN SpawnFailed(p, "spawn", fdtab)
            ELSE SpawnStarted(p, SpawnPipes(fdtab, p), monitor_stdout, monitor_stderr, prog)
       ELSE IF ~createOk THEN SpawnFailed(p, "spawn", CreatePipes(fdtab, p))
            ELSE SpawnStarted(p, CloseChildEnds(CreatePipes(fdtab, p), p),
                              monitor_stdout, monitor_stderr, prog)
  /\ parentUp' \in (IF ~win32 /\ parseOk /\ EnvpOverrun(envi) THEN BOOLEAN ELSE {parentUp})
  /\ UNCHANGED <<find_history, signals, cbuf, reads, win32, pipe, rc, waiting, sink, exited,
                 closes, written, ops>>

\* The caller runs one process and gives it no environment.
Spawn ==
  \E p \in Procs, parseOk, createOk, mo, me \in BOOLEAN, prog \in Progs :
    /\ \A q \in Procs : st[q] # "spawned"
    /\ spawn(p, parseOk, NoEnvi, createOk, mo, me, prog)

\* ------------------------------------------------------------ the children
\* The states of a child: "running"; "zombie", ended and not waited for;
\* "collected", waited for by the child watch, which holds its status;
\* "reaped", waited for and reported.
\* A terminated child has closed its ends: what the parent wrote and the
\* child never read is gone.
Terminated(c, how) == [c EXCEPT !.state = "zombie", !.how = how]

\* The pipes after the descriptor table became tab: the bytes of a pipe whose
\* read end is closed are gone.
Settle(pp, tab) ==
  [p \in Procs |->
    [in |-> pp[p].in,
     out |-> IF ReaderOpen(tab, p, "stdout") THEN pp[p].out ELSE <<>>,
     err |-> IF ReaderOpen(tab, p, "stderr") THEN pp[p].err ELSE <<>>]]

\* How a child ends that writes to a pipe nobody can read: SIGPIPE on POSIX;
\* on Windows the write fails and the program gives up with code 1.
BrokenPipe == IF win32 THEN <<"exit", 1>> ELSE <<"signal", 13>>

\* The child writes the next byte of its output to stdout.
ChildWriteOut(p) ==
  /\ ChildRunning(p)
  /\ child[p].nout < Len(child[p].prog.out)
  /\ IF ReaderOpen(fdtab, p, "stdout")
       THEN /\ pipe' = [pipe EXCEPT ![p].out = Append(@, child[p].prog.out[child[p].nout + 1])]
            /\ child' = [child EXCEPT ![p].nout = @ + 1]
       ELSE /\ child' = [child EXCEPT ![p] = Terminated(@, BrokenPipe)]
            /\ pipe' = [pipe EXCEPT ![p].in = <<>>]
  /\ UNCHANGED <<find_history, args, envp, signals, cbuf, reads, win32, parentUp, st, error, proc, watches, fdtab, rc, waiting, sink,
                 exited, closes, hist, written, ops>>

\* The child writes the next byte of its output to stderr.
ChildWriteErr(p) ==
  /\ ChildRunning(p)
  /\ child[p].nerr < Len(child[p].prog.err)
  /\ IF ReaderOpen(fdtab, p, "stderr")
       THEN /\ pipe' = [pipe EXCEPT ![p].err = Append(@, child[p].prog.err[child[p].nerr + 1])]
            /\ child' = [child EXCEPT ![p].nerr = @ + 1]
       ELSE /\ child' = [child EXCEPT ![p] = Terminated(@, BrokenPipe)]
            /\ pipe' = [pipe EXCEPT ![p].in = <<>>]
  /\ UNCHANGED <<find_history, args, envp, signals, cbuf, reads, win32, parentUp, st, error, proc, watches, fdtab, rc, waiting, sink,
                 exited, closes, hist, written, ops>>

\* cat copies one byte from its stdin to its stdout.
ChildEcho(p) ==
  /\ ChildRunning(p)
  /\ child[p].prog.kind = "cat"
  /\ pipe[p].in # <<>>
  /\ IF ReaderOpen(fdtab, p, "stdout")
       THEN /\ pipe' = [pipe EXCEPT ![p].in = Tail(@), ![p].out = Append(@, Head(pipe[p].in))]
            /\ child' = child
       ELSE /\ child' = [child EXCEPT ![p] = Terminated(@, BrokenPipe)]
            /\ pipe' = [pipe EXCEPT ![p].in = <<>>]
  /\ UNCHANGED <<find_history, args, envp, signals, cbuf, reads, win32, parentUp, st, error, proc, watches, fdtab, rc, waiting, sink,
                 exited, closes, hist, written, ops>>

\* The child ends by itself: echo after its last byte, cat when it reads end
\* of input (its stdin pipe is empty and no write end of it is open).
ChildExit(p) ==
  /\ ChildRunning(p)
  /\ \/ /\ child[p].prog.kind = "echo"
        /\ child[p].nout = Len(child[p].prog.out)
        /\ child[p].nerr = Len(child[p].prog.err)
     \/ /\ child[p].prog.kind = "cat"
        /\ pipe[p].in = <<>>
        /\ ~ReaderOpen(fdtab, p, "stdin")
  /\ child' = [child EXCEPT ![p] = Terminated(@, <<"exit", child[p].prog.code>>)]
  /\ UNCHANGED <<find_history, args, envp, signals, cbuf, reads, win32, parentUp, st, error, proc, watches, fdtab, pipe, rc, waiting,
                 sink, exited, closes, hist, written, ops>>

\* ---------------------------------------------------------------- cleanup
\* (mutant) removes one source, whichever record it carries.
g_source_remove_any(ws, p) ==
  IF ws # {} THEN ws \ {CHOOSE w \in ws : TRUE} ELSE ws

\* g_source_remove_by_user_data(): removes one source that carries the record,
\* and does nothing when there is none.
g_source_remove_by_user_data(ws, p) ==
  IF \E w \in ws : w[1] = p THEN ws \ {CHOOSE w \in ws : w[1] = p} ELSE ws

\* close(proc->fstdin), close(proc->fstdout), close(proc->fstderr): each closes
\* whatever the number names now, or fails when it names nothing.
CloseAll(tab, p) == Close(Close(Close(tab, proc[p].fstdin), proc[p].fstdout), proc[p].fstderr)

\* (mutant) cleanup_process without the three g_source_remove_by_user_data.
cleanup_process_sources_kept(p, status) ==
  /\ watches' = watches
  /\ proc' = [proc EXCEPT ![p].pid = 0, ![p].exit_status = status]
  /\ fdtab' = CloseAll(fdtab, p)
  /\ pipe' = Settle(pipe, CloseAll(fdtab, p))
  /\ closes' = [closes EXCEPT ![p] =
       [fstdin |-> @.fstdin + 1, fstdout |-> @.fstdout + 1, fstderr |-> @.fstderr + 1]]
  /\ exited' = [exited EXCEPT ![p] = Append(@, status)]

\* (mutant) cleanup_process without proc->pid = 0.
cleanup_process_pid_kept(p, status) ==
  /\ watches' = g_source_remove_by_user_data(
                  g_source_remove_by_user_data(
                    g_source_remove_by_user_data(watches, p), p), p)
  /\ proc' = [proc EXCEPT ![p].exit_status = status]
  /\ fdtab' = CloseAll(fdtab, p)
  /\ pipe' = Settle(pipe, CloseAll(fdtab, p))
  /\ closes' = [closes EXCEPT ![p] =
       [fstdin |-> @.fstdin + 1, fstdout |-> @.fstdout + 1, fstderr |-> @.fstderr + 1]]
  /\ exited' = [exited EXCEPT ![p] = Append(@, status)]

\* static void cleanup_process(struct Process *proc, int status)
cleanup_process(p, status) ==
  /\ watches' = g_source_remove_by_user_data(
                  g_source_remove_by_user_data(
                    g_source_remove_by_user_data(watches, p), p), p)
  /\ proc' = [proc EXCEPT ![p].pid = 0, ![p].exit_status = status]
  /\ fdtab' = CloseAll(fdtab, p)
  /\ pipe' = Settle(pipe, CloseAll(fdtab, p))
  /\ closes' = [closes EXCEPT ![p] =
       [fstdin |-> @.fstdin + 1, fstdout |-> @.fstdout + 1, fstderr |-> @.fstderr + 1]]
  /\ exited' = [exited EXCEPT ![p] = Append(@, status)]

\* g_child_watch_add(proc->pid, proc_exited, proc): the watch waits for the
\* child itself.  GLib collects the status of the ended child with waitpid
\* either when it dispatches the callback or before (in its check phase, or in
\* its signal thread while the program's thread does something else); which
\* one depends on the GLib the build links.  Here it does so before.
child_watch_reap(p) ==
  /\ ~win32
  /\ parentUp
  /\ <<p, "child">> \in watches
  /\ child[p].state = "zombie"
  /\ child' = [child EXCEPT ![p].state = "collected"]
  /\ UNCHANGED <<find_history, args, envp, signals, cbuf, reads, win32, parentUp, st, error, proc, watches, fdtab, pipe, rc, waiting,
                 sink, exited, closes, hist, written, ops>>

\* The status the child watch hands to its callback: on POSIX the raw wait
\* status, on Windows the exit code.  A child that something else has reaped
\* already makes GLib's waitpid fail, and GLib reports status 0.
ChildWatchStatus(c) ==
  IF win32 THEN c.how[2]
  ELSE IF c.state = "reaped" THEN 0 ELSE WaitStatus(c.how)

\* static void proc_exited(GPid _, int status, void *proc), dispatched by the
\* child watch once the child has ended.
proc_exited(p) ==
  /\ Idle
  /\ <<p, "child">> \in watches
  /\ child[p].state \in {"zombie", "collected", "reaped"}
  /\ child' = [child EXCEPT ![p].state = IF win32 THEN @ ELSE "reaped"]
  /\ cleanup_process(p, ChildWatchStatus(child[p]))
  /\ hist' = [hist EXCEPT ![p] = @ \cup {"proc_exited"}]
  /\ UNCHANGED <<find_history, args, envp, signals, cbuf, reads, win32, parentUp, st, error, rc, waiting, sink, written, ops>>

\* ----------------------------------------------------------- read_channel
\* The descriptor a channel of the record reads: the one it was made for.
ChanFd(p, k) == IF k = "stdout" THEN proc[p].fstdout ELSE proc[p].fstderr

\* The pipe a descriptor reads from now: <<record, field>>, or <<NoProc, "">>
\* when the number is closed or names a write end.
Source(tab, fd) ==
  IF IsOpen(tab, fd) /\ Target(tab, fd).end \in {"stdout", "stderr"}
    THEN <<Target(tab, fd).p, IF Target(tab, fd).end = "stdout" THEN "out" ELSE "err">>
    ELSE <<NoProc, "">>
Data(src) == IF src[1] = NoProc THEN <<>> ELSE pipe[src[1]][src[2]]
WriterGone(src) == src[1] # NoProc /\ ~ChildRunning(src[1])

\* The condition the watch reports: G_IO_IN with bytes to read in the pipe or
\* in the read buffer of the channel, G_IO_HUP when every write end is closed.
G_IO_IN(p, k) ==
  \/ Data(Source(fdtab, ChanFd(p, k))) # <<>>
  \/ k = "stdout" /\ cbuf[p].read_buf # <<>>
G_IO_HUP(p, k) == WriterGone(Source(fdtab, ChanFd(p, k)))

Min(a, b) == IF a < b THEN a ELSE b

\* (mutant) a false return takes the other output watch of the record along.
KeepWatchBoth(ws, p, k, keep) ==
  IF keep THEN ws ELSE ws \ {<<p, "stdout">>, <<p, "stderr">>}

\* (mutant) the source stays whatever read_channel returns.
KeepWatchAlways(ws, p, k, keep) == ws

\* What read_channel returns, which is whether the source stays.
KeepWatch(ws, p, k, keep) == IF keep THEN ws ELSE ws \ {<<p, k>>}

\* (mutant) a notification that finalizes the handle itself.
read_channel_cleaning(p, k) ==
  /\ Idle
  /\ <<p, k>> \in watches
  /\ G_IO_IN(p, k) \/ G_IO_HUP(p, k)
  /\ cleanup_process(p, 0)
  /\ UNCHANGED <<find_history, args, envp, signals, cbuf, reads, win32, parentUp, st, error, child, rc, waiting, sink,
                 hist, written, ops>>

\* static int read_channel(GIOChannel *source, GIOCondition cond, void *proc):
\* entry, up to the loop.
read_channel(p, k) ==
  /\ Idle
  /\ <<p, k>> \in watches
  /\ G_IO_IN(p, k) \/ G_IO_HUP(p, k)
  /\ IF proc[p].pid = 0 \/ ~G_IO_IN(p, k)
       THEN watches' = KeepWatch(watches, p, k, FALSE) /\ rc' = rc
       ELSE watches' = watches
            /\ rc' = [p |-> p, k |-> k, hup |-> G_IO_HUP(p, k), len |-> Unset]
  /\ UNCHANGED <<find_history, args, envp, signals, cbuf, reads, win32, parentUp, st, error, proc, fdtab, child, pipe, waiting, sink,
                 exited, closes, hist, written, ops>>

\* (mutant) a read that stores everything there is, whatever the count.
ReadLenNoCap(data) == Len(data)

\* The length one g_io_channel_read_chars(source, buf, BUFSIZ, &len, NULL) of
\* an unbuffered channel stores: one read() of at most BUFSIZ bytes; 0 at
\* end of input and on an error.
ReadLen(data) == Min(BUFSIZ, Len(data))

\* (mutant) the stream flag computed against the wrong channel.
process_output_swapped(sk, p, chunk, is_stdout) ==
  [sk EXCEPT ![p] = Append(@, [stdout |-> ~is_stdout, data |-> chunk])]

\* process_output(proc, buf, len, source == proc->cstdout)
process_output(sk, p, chunk, is_stdout) ==
  [sk EXCEPT ![p] = Append(@, [stdout |-> is_stdout, data |-> chunk])]

\* One turn of the do-while loop: the body, entered the first time and again
\* while the last read stored BUFSIZ.  A read of an empty pipe that still has
\* a writer blocks.  On a channel that read_process_output left buffered,
\* g_io_channel_read_chars serves from read_buf and first refills it from the
\* descriptor until it holds BUFSIZ bytes or the descriptor is at its end.
\* The channel reads the descriptor number it was made for, whatever that
\* number names by now.
read_channel_loop ==
  /\ parentUp
  /\ rc # NoRc
  /\ waiting = NoProc
  /\ rc.len \in {Unset, BUFSIZ}
  /\ LET p == rc.p
         k == rc.k
         src == Source(fdtab, ChanFd(p, k))
         buffered == k = "stdout" /\ cbuf[p].use_buffer
         held == IF buffered THEN cbuf[p].read_buf ELSE <<>>
         fill == buffered /\ Len(held) < BUFSIZ
         all == IF buffered /\ ~fill THEN held ELSE held \o Data(src)
         len == ReadLen(all)
     IN /\ IF buffered
             THEN ~fill \/ src[1] = NoProc \/ Len(all) >= BUFSIZ \/ WriterGone(src)
             ELSE src[1] = NoProc \/ len > 0 \/ WriterGone(src)
        /\ sink' = IF len > 0
                     THEN process_output(sink, p, SubSeq(all, 1, len), k = "stdout")
                     ELSE sink
        /\ cbuf' = IF buffered
                     THEN [cbuf EXCEPT ![p].read_buf = SubSeq(all, len + 1, Len(all))]
                     ELSE cbuf
        /\ pipe' = IF buffered
                     THEN IF fill /\ src[1] # NoProc
                            THEN [pipe EXCEPT ![src[1]][src[2]] = <<>>] ELSE pipe
                     ELSE IF len > 0
                            THEN [pipe EXCEPT ![src[1]][src[2]] = SubSeq(@, len + 1, Len(@))]
                            ELSE pipe
        /\ rc' = [rc EXCEPT !.len = len]
  /\ UNCHANGED <<find_history, args, envp, signals, reads, win32, parentUp, st, error, proc, watches, fdtab, child, waiting,
                 exited, closes, hist, written, ops>>

\* The loop test failing and the return: PROCESS(proc)->pid && !(cond & G_IO_HUP),
\* with the pid as it is after the last process_output has returned.
read_channel_return ==
  /\ parentUp
  /\ rc # NoRc
  /\ waiting = NoProc
  /\ rc.len \notin {Unset, BUFSIZ}
  /\ rc' = NoRc
  /\ watches' = KeepWatch(watches, rc.p, rc.k, proc[rc.p].pid # 0 /\ ~rc.hup)
  /\ UNCHANGED <<find_history, args, envp, signals, cbuf, reads, win32, parentUp, st, error, proc, fdtab, child, pipe, waiting,
                 sink, exited, closes, hist, written, ops>>

\* process_output is the caller's sink and runs the caller's code with the
\* handle: here it calls wait_process(proc) on the handle it was called for,
\* once, and sits in waitpid (WaitForSingleObject) inside the read loop.
sink_wait_process ==
  /\ parentUp
  /\ rc # NoRc
  /\ waiting = NoProc
  /\ rc.len > 0
  /\ "sink_wait" \notin hist[rc.p]
  /\ waiting' = rc.p
  /\ hist' = [hist EXCEPT ![rc.p] = @ \cup {"sink_wait"} \cup
       (IF proc[rc.p].pid # 0 THEN {"wait_live"} ELSE {"wait_dead"})]
  /\ UNCHANGED <<find_history, args, envp, signals, cbuf, reads, win32, parentUp, st, error, proc, watches, fdtab, child, pipe, rc,
                 sink, exited, closes, written, ops>>

\* ------------------------------------------------- the exported operations
\* The caller holds a handle only for a record spawn() filled in.
CanCall(p) == Idle /\ st[p] = "spawned" /\ ops < MaxOps

\* bool is_process_running(Process *proc)
is_process_running(p) == proc[p].pid # 0

\* int get_process_exit_status(Process *proc)
get_process_exit_status(p) == proc[p].exit_status

\* void wait_process(Process *proc): the call, which then sits in waitpid
\* (WaitForSingleObject) with the event loop not running.
wait_process(p) ==
  /\ CanCall(p)
  /\ waiting' = p
  /\ ops' = ops + 1
  /\ hist' = [hist EXCEPT ![p] = @ \cup
       (IF is_process_running(p) THEN {"wait_live"} ELSE {"wait_dead"})]
  /\ UNCHANGED <<find_history, args, envp, signals, cbuf, reads, win32, parentUp, st, error, proc, watches, fdtab, child, pipe, rc,
                 sink, exited, closes, written>>

\* The children waitpid(pid, &status, 0) can report: the child pid for
\* pid > 0, any child of the caller's process group for pid = 0.
WaitSet(pid) ==
  IF pid = 0 THEN {q \in Procs : child[q].state \in {"running", "zombie"}}
  ELSE {q \in Procs : q = pid /\ child[q].state \in {"running", "zombie"}}

\* status = WIFEXITED(status) ? WEXITSTATUS(status) : 1
Normalize(status) == IF WIFEXITED(status) THEN WEXITSTATUS(status) ELSE 1

\* wait_process from the return of waitpid on: the status is normalized and
\* cleanup_process runs.  With no child to wait for, waitpid fails and status
\* is the int it was before, which nothing has assigned.
wait_return_posix ==
  /\ ~win32
  /\ parentUp
  /\ waiting # NoProc
  /\ LET p == waiting
         ws == WaitSet(proc[p].pid)
     IN \/ \E q \in ws :
             /\ child[q].state = "zombie"
             /\ child' = [child EXCEPT ![q].state = "reaped"]
             /\ cleanup_process(p, Normalize(WaitStatus(child[q].how)))
        \/ /\ ws = {}
           /\ child' = child
           /\ \E raw \in Indeterminate : cleanup_process(p, Normalize(raw))
  /\ waiting' = NoProc
  /\ UNCHANGED <<find_history, args, envp, signals, cbuf, reads, win32, parentUp, st, error, rc, sink, hist, written, ops>>

\* The Windows branch: WaitForSingleObject and GetExitCodeProcess on the
\* process handle; on the null handle both fail and status is never assigned.
wait_return_win32 ==
  /\ win32
  /\ parentUp
  /\ waiting # NoProc
  /\ LET p == waiting
     IN IF proc[p].pid # 0
          THEN /\ child[p].state = "zombie"
               /\ cleanup_process(p, child[p].how[2])
          ELSE \E raw \in Indeterminate : cleanup_process(p, raw)
  /\ waiting' = NoProc
  /\ UNCHANGED <<find_history, args, envp, signals, cbuf, reads, win32, parentUp, st, error, child, rc, sink, hist, written, ops>>

\* void close_process_input(Process *proc).  The caller closes the input of
\* a handle once; a second call is the caller's error.
close_process_input(p) ==
  /\ CanCall(p)
  /\ "close_input" \notin hist[p]
  /\ hist' = [hist EXCEPT ![p] = @ \cup {"close_input"}]
  /\ fdtab' = Close(fdtab, proc[p].fstdin)
  /\ pipe' = Settle(pipe, Close(fdtab, proc[p].fstdin))
  /\ closes' = [closes EXCEPT ![p].fstdin = @ + 1]
  /\ ops' = ops + 1
  /\ UNCHANGED <<find_history, args, envp, signals, cbuf, reads, win32, parentUp, st, error, proc, watches, child, rc, waiting, sink,
                 exited, written>>

\* The stdin pipe a descriptor writes to now, or NoProc.
Drain(tab, fd) ==
  IF IsOpen(tab, fd) /\ Target(tab, fd).end = "stdin" THEN Target(tab, fd).p ELSE NoProc

\* void write_process_input(Process *proc, const char *s, size_t len): one
\* write().  Into a pipe whose reader has ended it raises SIGPIPE, which ends
\* the program unless the signal is ignored; on Windows it only fails.
write_process_input(p, s) ==
  /\ CanCall(p)
  /\ Len(written[p]) + Len(s) <= MaxWrite
  /\ LET q == Drain(fdtab, proc[p].fstdin)
     IN IF q = NoProc
          THEN UNCHANGED <<pipe, written, parentUp>>
          ELSE IF ChildRunning(q)
            THEN /\ pipe' = [pipe EXCEPT ![q].in = @ \o s]
                 /\ written' = [written EXCEPT ![q] = @ \o s]
                 /\ parentUp' = parentUp
            ELSE /\ UNCHANGED <<pipe, written>>
                 /\ parentUp' \in (IF win32 THEN {TRUE} ELSE {TRUE, FALSE})
  /\ ops' = ops + 1
  /\ UNCHANGED <<find_history, args, envp, signals, cbuf, reads, win32, st, error, proc, watches, fdtab, child, rc, waiting, sink,
                 exited, closes, hist>>

\* The processes kill(pid, sig) signals: the child for pid > 0; for pid = 0
\* every process of the caller's process group, the caller included.
KillSet(pid) == IF pid = 0 THEN {q \in Procs : ChildRunning(q)} ELSE {q \in Procs : q = pid /\ ChildRunning(q)}

\* The signal kill() is given: signal ? signal : SIGKILL.  Signal 0 would
\* only probe the process.
KillSignal(signal) == IF signal # 0 THEN signal ELSE SIGKILL

\* void kill_process(Process *proc, int signal): kill(pid, signal ? signal :
\* SIGKILL) on POSIX, TerminateProcess(pid, 1) on Windows.
kill_process(p, signal) ==
  /\ CanCall(p)
  /\ LET sig == KillSignal(signal)
         how == IF win32 THEN <<"exit", 1>> ELSE <<"signal", sig>>
         hit == IF win32 THEN (IF proc[p].pid = 0 THEN {} ELSE KillSet(proc[p].pid))
                ELSE IF sig = 0 THEN {} ELSE KillSet(proc[p].pid)
     IN /\ child' = [q \in Procs |-> IF q \in hit THEN Terminated(child[q], how) ELSE child[q]]
        /\ pipe' = [q \in Procs |-> IF q \in hit THEN [pipe[q] EXCEPT !.in = <<>>] ELSE pipe[q]]
        /\ parentUp' = (win32 \/ proc[p].pid # 0 \/ sig = 0)
        /\ hist' = [hist EXCEPT ![p] = @ \cup
             (IF signal = 0 /\ is_process_running(p) /\ ChildRunning(p)
                THEN {"killed"} ELSE {})]
        /\ signals' = IF win32 THEN signals
                       ELSE [signals EXCEPT ![p] = @ \cup {<<proc[p].pid, signal, sig>>}]
  /\ ops' = ops + 1
  /\ UNCHANGED <<find_history, args, envp, cbuf, reads, win32, st, error, proc, watches, fdtab, rc, waiting, sink, exited,
                 closes, written>>

ChildStep ==
  \E p \in Procs : ChildWriteOut(p) \/ ChildWriteErr(p) \/ ChildEcho(p) \/ ChildExit(p)

Next ==
  \/ Spawn
  \/ ChildStep
  \/ \E p \in Procs : child_watch_reap(p)
  \/ \E p \in Procs : proc_exited(p)
  \/ \E p \in Procs, k \in {"stdout", "stderr"} : read_channel(p, k)
  \/ read_channel_loop
  \/ read_channel_return
  \/ \E p \in Procs : wait_process(p)
  \/ wait_return_posix
  \/ wait_return_win32
  \/ \E p \in Procs : close_process_input(p)
  \/ \E p \in Procs, b \in Bytes : write_process_input(p, <<b>>)
  \/ \E p \in Procs, signal \in {0, 15} : kill_process(p, signal)

Spec == Init /\ [][Next]_vars

\* The main loop dispatches a source that stays ready, and a system call that
\* can return does.
Fairness ==
  /\ WF_vars(\E p \in Procs : proc_exited(p))
  /\ WF_vars(read_channel_loop)
  /\ WF_vars(read_channel_return)
  /\ WF_vars(wait_return_posix)
  /\ WF_vars(wait_return_win32)
FairSpec == Spec /\ Fairness

\* ---------------------------------------------------- read_process_output
\* The channel cstdout of a monitored stdout belongs to its watch: new_channel
\* drops its own reference after g_io_add_watch, so the channel is freed
\* when the source is removed and proc->cstdout points to freed memory.
ChannelFreed(p) == "monitor_stdout" \in hist[p] /\ <<p, "stdout">> \notin watches

\* The index of the first '\r' or '\n' of s, 0 when there is none.
TermAt(s) ==
  IF \E i \in 1..Len(s) : s[i] \in {CR, LF}
    THEN CHOOSE i \in 1..Len(s) :
           s[i] \in {CR, LF} /\ \A j \in 1..(i - 1) : s[j] \notin {CR, LF}
    ELSE 0

\* g_io_channel_read_line_string with no line terminator set: the length of
\* the line at the head of s, terminator included, or 0 when s does not
\* decide it yet.  A line ends with "\n", "\r\n" or "\r"; a "\r" that is the
\* last byte read decides nothing before the end of the input, and neither
\* do bytes without a terminator.
LineLen(s, atEof) ==
  LET i == TermAt(s)
  IN IF i = 0 THEN (IF atEof THEN Len(s) ELSE 0)
     ELSE IF s[i] = LF THEN i
     ELSE IF i < Len(s) THEN (IF s[i + 1] = LF THEN i + 1 ELSE i)
     ELSE IF atEof THEN i ELSE 0

\* What a read of the buffered channel comes to: the GIOStatus ("BLOCK" while
\* the read waits for the child), the bytes it hands out, the read_buf it
\* leaves and whether it has emptied the pipe into read_buf.
Glib(status, out, buf, took) == [status |-> status, out |-> out, buf |-> buf, took |-> took]
Cut(status, s, n, took) == Glib(status, SubSeq(s, 1, n), SubSeq(s, n + 1, Len(s)), took)

\* g_io_channel_read_line_string(cstdout, s, NULL, &err)
\*   held: read_buf, data: the bytes in the pipe, fdOk: the descriptor can be
\*   read, eof: no writer is left
ReadLine(held, data, fdOk, eof) ==
  IF LineLen(held, FALSE) > 0 THEN Cut("NORMAL", held, LineLen(held, FALSE), FALSE)
  ELSE IF ~fdOk THEN Glib("ERROR", <<>>, held, FALSE)
  ELSE IF LineLen(held \o data, FALSE) > 0
    THEN Cut("NORMAL", held \o data, LineLen(held \o data, FALSE), TRUE)
  ELSE IF ~eof THEN Glib("BLOCK", <<>>, held, FALSE)
  ELSE IF held \o data = <<>> THEN Glib("EOF", <<>>, <<>>, TRUE)
  ELSE Cut("NORMAL", held \o data, LineLen(held \o data, TRUE), TRUE)

\* g_io_channel_read_to_end(cstdout, &buf, len, &err): reads until the end of
\* the input and never returns G_IO_STATUS_EOF.
ReadToEnd(held, data, fdOk, eof) ==
  IF ~fdOk THEN Glib("ERROR", <<>>, held, FALSE)
  ELSE IF ~eof THEN Glib("BLOCK", <<>>, held, FALSE)
  ELSE Glib("NORMAL", held \o data, <<>>, TRUE)

\* g_io_channel_read_chars(cstdout, buf, bytes, len, &err) on the buffered
\* channel: fills read_buf until it holds bytes or the input ends.
ReadChars(held, data, fdOk, eof, bytes) ==
  IF Len(held) >= bytes THEN Cut("NORMAL", held, bytes, FALSE)
  ELSE IF ~fdOk
    THEN IF held = <<>> THEN Glib("ERROR", <<>>, held, FALSE)
         ELSE Glib("NORMAL", held, <<>>, FALSE)
  ELSE IF Len(held \o data) >= bytes THEN Cut("NORMAL", held \o data, bytes, TRUE)
  ELSE IF ~eof THEN Glib("BLOCK", <<>>, held, FALSE)
  ELSE IF held \o data = <<>> THEN Glib("EOF", <<>>, <<>>, TRUE)
  ELSE Glib("NORMAL", held \o data, <<>>, TRUE)

\* buf[*len - 1]: the byte of the line, or with *len - 1 outside the line
\* whatever lies outside the buffer there.
Stray == {0, CR, LF}
ByteAt(line, len) == IF len \in 1..Len(line) THEN {line[len]} ELSE Stray

\* (*len)--, on a size_t
Dec(len, c) == IF c THEN (len - 1) % (SIZE_MAX + 1) ELSE len

\* if (option == 'l' && buf[*len - 1] == '\n') (*len)--;
\* if (option == 'l' && buf[*len - 1] == '\r') (*len)--;
\* The values *len may end with.
Strip(line, option) ==
  IF option # "l" THEN {Len(line)}
  ELSE UNION {{Dec(Dec(Len(line), b1 = LF), b2 = CR) :
                 b2 \in ByteAt(line, Dec(Len(line), b1 = LF))} :
               b1 \in ByteAt(line, Len(line))}

\* What a call returned, with what it was called on:
\*   count: the *len given, the count of an 'n' read
\*   live, ended: the handle was running, its child had ended
\*   pending: read_buf held bytes; fdOk: fstdout could be read
\*   atEnd: nothing in read_buf, nothing in the pipe and no writer left
\*   line: the bytes GLib handed out; buf: "data" or "NULL"; len: *len;
\*   data: the first *len bytes of buf; error, code: *error and *code
Returned(call, line, buf, len, err, code) ==
  [option |-> call.option, count |-> call.count, live |-> call.live, ended |-> call.ended,
   pending |-> call.pending, fdOk |-> call.fdOk, atEnd |-> call.atEnd,
   line |-> line, buf |-> buf, len |-> len,
   data |-> SubSeq(line, 1, Min(len, Len(line))), error |-> err, code |-> code]

\* Lines 996-998: what the status makes of buf, *error and *code.
Outcome(call, g, len) ==
  IF g.status = "EOF" THEN Returned(call, g.out, "NULL", len, "NULL", "untouched")
  ELSE IF g.status # "NORMAL" THEN Returned(call, g.out, "NULL", len, "set", "set")
  ELSE Returned(call, g.out, "data", len, "untouched", "untouched")

\* What a call on a freed channel may return; the mode flag it reads and
\* writes is whatever the freed memory holds.
Wild(call) ==
  {Returned(call, <<>>, "data", 0, "untouched", "untouched"),
   Returned(call, <<>>, "NULL", 0, "NULL", "untouched"),
   Returned(call, <<>>, "NULL", 0, "set", "set")}

\* char *read_process_output(Process *proc, char option, size_t *len,
\*   const char **error, int *code), with bytes the *len given for 'n'.
\* The call returns when GLib has what the option asks for; until then it
\* waits for the child with the event loop not running.
read_process_output(p, option, bytes) ==
  /\ CanCall(p)
  /\ Len(reads[p]) < MaxReads
  /\ ops' = ops + 1
  /\ LET src == Source(fdtab, proc[p].fstdout)
         fdOk == src[1] # NoProc
         data == Data(src)
         eof == WriterGone(src)
         held == cbuf[p].read_buf
         g == IF option \in {"l", "L"} THEN ReadLine(held, data, fdOk, eof)
              ELSE IF option = "a" THEN ReadToEnd(held, data, fdOk, eof)
              ELSE ReadChars(held, data, fdOk, eof, bytes)
         call == [option |-> option, count |-> bytes, live |-> is_process_running(p),
                  ended |-> ~ChildRunning(p), pending |-> held # <<>>, fdOk |-> fdOk,
                  atEnd |-> fdOk /\ eof /\ held \o data = <<>>]
     IN IF ChannelFreed(p)
          THEN /\ \E r \in Wild(call) : reads' = [reads EXCEPT ![p] = Append(@, r)]
               /\ parentUp' \in BOOLEAN
               /\ \E b \in BOOLEAN : cbuf' = [cbuf EXCEPT ![p].use_buffer = b]
               /\ pipe' = pipe
          ELSE /\ g.status # "BLOCK"
               /\ \E len \in Strip(g.out, option) :
                    reads' = [reads EXCEPT ![p] = Append(@, Outcome(call, g, len))]
               /\ cbuf' = [cbuf EXCEPT ![p] =
                    [use_buffer |-> g.buf # <<>>, read_buf |-> g.buf]]
               /\ pipe' = IF g.took THEN [pipe EXCEPT ![src[1]][src[2]] = <<>>] ELSE pipe
               /\ parentUp' = parentUp
  /\ UNCHANGED <<find_history, args, envp, signals, win32, st, error, proc, watches, fdtab, child, rc,
                 waiting, sink, exited, closes, hist, written>>

\* The runs in which the caller reads stdout itself: one child that writes
\* some lines and exits, monitored or not.
Streams == UNION {[1..n -> {1, CR, LF}] : n \in 0..MaxOut}
ProgsRead == {Prog("echo", out, <<>>, 0) : out \in Streams}
ReadArgs == {<<"l", 0>>, <<"L", 0>>, <<"a", 0>>, <<"n", 1>>, <<"n", 2>>}

SpawnRead ==
  \E p \in Procs, monitor_stdout \in BOOLEAN, prog \in ProgsRead :
    /\ \A q \in Procs : st[q] # "spawned"
    /\ spawn(p, TRUE, NoEnvi, TRUE, monitor_stdout, FALSE, prog)

NextRead ==
  \/ SpawnRead
  \/ \E p \in Procs : ChildWriteOut(p)
  \/ \E p \in Procs : ChildExit(p)
  \/ \E p \in Procs : child_watch_reap(p)
  \/ \E p \in Procs : proc_exited(p)
  \/ \E p \in Procs : read_channel(p, "stdout")
  \/ read_channel_loop
  \/ read_channel_return
  \/ \E p \in Procs, a \in ReadArgs : read_process_output(p, a[1], a[2])

SpecRead == Init /\ [][NextRead]_vars

\* ------------------------------------------- spawn() with an environment
\* The tables a caller gives as envi: lists of distinct "KEY=VALUE" strings.
Entries == {"A=1", "B=2", "PATH=/x"}
Tables ==
  {t \in UNION {[1..n -> Entries] : n \in 0..MaxEnv} :
     \A i, j \in 1..Len(t) : t[i] = t[j] => i = j}
Envis == {NoEnvi} \cup {[index |-> 1, t |-> t, h |-> <<>>] : t \in Tables}

SpawnEnv ==
  \E p \in Procs, parseOk, createOk \in BOOLEAN, envi \in Envis :
    spawn(p, parseOk, envi, createOk, FALSE, FALSE, Prog("sleep", <<>>, <<>>, 0))

NextEnv ==
  \/ SpawnEnv
  \/ \E p \in Procs : kill_process(p, 0)
  \/ \E p \in Procs : child_watch_reap(p)
  \/ \E p \in Procs : proc_exited(p)

SpecEnv == Init /\ [][NextEnv]_vars

\* Tables that also hold values under keys outside their array part.
Hashes == {<<>>, <<"HOME=/y">>, <<"HOME=/y", "LANG=C">>}
EnvisHash == {[index |-> 1, t |-> t, h |-> h] : t \in {<<>>, <<"A=1">>}, h \in Hashes}

SpawnEnvHash ==
  \E p \in Procs, parseOk \in BOOLEAN, envi \in EnvisHash :
    spawn(p, parseOk, envi, TRUE, FALSE, FALSE, Prog("sleep", <<>>, <<>>, 0))

NextEnvHash ==
  \/ SpawnEnvHash
  \/ \E p \in Procs : kill_process(p, 0)
  \/ \E p \in Procs : child_watch_reap(p)
  \/ \E p \in Procs : proc_exited(p)

SpecEnvHash == Init /\ [][NextEnvHash]_vars

\* ------------------------------------------------------------ two handles
\* The caller runs two processes at a time, unmonitored: one that ends by
\* itself and one that runs until it is killed.
ProgsTwo == {Prog("echo", <<>>, <<>>, 0), Prog("sleep", <<>>, <<>>, 0)}

SpawnTwo ==
  \E p \in Procs, prog \in ProgsTwo :
    spawn(p, TRUE, NoEnvi, TRUE, FALSE, FALSE, prog)

NextTwo ==
  \/ SpawnTwo
  \/ \E p \in Procs : ChildExit(p)
  \/ \E p \in Procs : child_watch_reap(p)
  \/ \E p \in Procs : proc_exited(p)
  \/ \E p \in Procs : wait_process(p)
  \/ wait_return_posix
  \/ wait_return_win32
  \/ \E p \in Procs : close_process_input(p)
  \/ \E p \in Procs : write_process_input(p, <<1>>)
  \/ \E p \in Procs : kill_process(p, 0)

SpecTwo == Init /\ [][NextTwo]_vars

\* ------------------------------------------------ the monitors of a handle
\* One process that writes to both streams, every choice of monitors, and a
\* sink that may call wait_process from inside the read loop.
OutLoop == {<<>>, <<1>>, <<1, 2>>, <<1, 2, 1>>}
ErrLoop == {<<>>, <<2>>}
ProgsLoop == {Prog("echo", out, err, 0) : out \in OutLoop, err \in ErrLoop}

SpawnLoop ==
  \E p \in Procs, monitor_stdout, monitor_stderr \in BOOLEAN, prog \in ProgsLoop :
    /\ \A q \in Procs : st[q] # "spawned"
    /\ spawn(p, TRUE, NoEnvi, TRUE, monitor_stdout, monitor_stderr, prog)

NextLoop ==
  \/ SpawnLoop
  \/ \E p \in Procs : ChildWriteOut(p)
  \/ \E p \in Procs : ChildWriteErr(p)
  \/ \E p \in Procs : ChildExit(p)
  \/ \E p \in Procs : child_watch_reap(p)
  \/ \E p \in Procs : proc_exited(p)
  \/ \E p \in Procs, k \in {"stdout", "stderr"} : read_channel(p, k)
  \/ read_channel_loop
  \/ read_channel_return
  \/ sink_wait_process
  \/ wait_return_posix
  \/ wait_return_win32

SpecLoop == Init /\ [][NextLoop]_vars

\* ------------------------------------------- two handles and their watches
\* Two processes that write nothing, every choice of monitors for each; the
\* caller waits for them, on cleaned-up handles too.
ProgsWatch == {Prog("echo", <<>>, <<>>, 0)}

SpawnWatch ==
  \E p \in Procs, monitor_stdout, monitor_stderr \in BOOLEAN, prog \in ProgsWatch :
    spawn(p, TRUE, NoEnvi, TRUE, monitor_stdout, monitor_stderr, prog)

NextWatch ==
  \/ SpawnWatch
  \/ \E p \in Procs : ChildExit(p)
  \/ \E p \in Procs : child_watch_reap(p)
  \/ \E p \in Procs : proc_exited(p)
  \/ \E p \in Procs, k \in {"stdout", "stderr"} : read_channel(p, k)
  \/ \E p \in Procs : wait_process(p)
  \/ wait_return_posix
  \/ wait_return_win32

SpecWatch == Init /\ [][NextWatch]_vars

\* ------------------------------------- manual reads on a monitored handle
\* One process with monitored stdout whose caller also reads it by hand, and
\* whose sink may call wait_process from inside the read loop.
ProgsMixed == {Prog("echo", <<1, 2, 1, 2>>, <<>>, 0)}

SpawnMixed ==
  \E p \in Procs, prog \in ProgsMixed :
    /\ \A q \in Procs : st[q] # "spawned"
    /\ spawn(p, TRUE, NoEnvi, TRUE, TRUE, FALSE, prog)

NextMixed ==
  \/ SpawnMixed
  \/ \E p \in Procs : ChildWriteOut(p)
  \/ \E p \in Procs : ChildExit(p)
  \/ \E p \in Procs : child_watch_reap(p)
  \/ \E p \in Procs : proc_exited(p)
  \/ \E p \in Procs : read_channel(p, "stdout")
  \/ read_channel_loop
  \/ read_channel_return
  \/ sink_wait_process
  \/ wait_return_posix
  \/ wait_return_win32
  \/ \E p \in Procs : read_process_output(p, "n", 1)

SpecMixed == Init /\ [][NextMixed]_vars

\* ------------------------------------------- manual reads with two handles
\* Two processes with unmonitored stdout, run one after the other or
\* together, and a caller that reads them by hand, finished ones included.
ProgsStale == {Prog("echo", <<1>>, <<>>, 0), Prog("echo", <<2, 1>>, <<>>, 0)}

SpawnStale ==
  \E p \in Procs, prog \in ProgsStale :
    spawn(p, TRUE, NoEnvi, TRUE, FALSE, FALSE, prog)

NextStale ==
  \/ SpawnStale
  \/ \E p \in Procs : ChildWriteOut(p)
  \/ \E p \in Procs : ChildExit(p)
  \/ \E p \in Procs : child_watch_reap(p)
  \/ \E p \in Procs : proc_exited(p)
  \/ \E p \in Procs, a \in {<<"a", 0>>, <<"n", 1>>} : read_process_output(p, a[1], a[2])

SpecStale == Init /\ [][NextStale]_vars

\* -------------------------------------------------- find/replace history
\* static void add_to_history(GtkListStore *store, const char *text): the
\* store it leaves.  With more than 9 rows the first is removed; then text
\* is appended unless it equals the last row.
add_to_history(store, text) ==
  LET kept == IF Len(store) > 9 THEN Tail(store) ELSE store
      n == Len(kept)
  IN IF n = 0 \/ text # kept[n] THEN Append(kept, text) ELSE kept

\* The texts a user searches for.
Texts == {"a", "b", "c"}

\* void add_to_find_history(const char *text)
add_to_find_history(text) ==
  /\ find_history' = add_to_history(find_history, text)
  /\ UNCHANGED <<win32, parentUp, st, error, proc, watches, fdtab, child, pipe, rc,
                 waiting, sink, exited, closes, hist, written, ops, args, envp, signals,
                 cbuf, reads>>

NextHistory == \E text \in Texts : add_to_find_history(text)

SpecHistory == Init /\ [][NextHistory]_vars

\* ------------------------------------------------------------- properties
RECURSIVE Concat(_, _)
\* The bytes of the chunks of sk that carry the stream flag is_stdout.
Concat(sk, is_stdout) ==
  IF sk = <<>> THEN <<>>
  ELSE (IF Head(sk).stdout = is_stdout THEN Head(sk).data ELSE <<>>)
         \o Concat(Tail(sk), is_stdout)
SinkOut(p) == Concat(sink[p], TRUE)
IsPrefix(a, b) == Len(a) <= Len(b) /\ SubSeq(b, 1, Len(a)) = a
Spawned == {p \in Procs : st[p] = "spawned"}

\* C1: the exit callback process_exited is invoked exactly once for a handle;
\* stated here is the part a finite run refutes: never more than once.
C1_ExitCallbackAtMostOnce == \A p \in Procs : Len(exited[p]) <= 1

\* C2: an invocation of cleanup_process that finds proc->pid already 0 does
\* none of its steps: no close of fstdout, no store to exit_status, no call of
\* process_exited.
C2_CleanupIdempotent ==
  [][\A p \in Spawned :
       proc[p].pid = 0 =>
         /\ exited'[p] = exited[p]
         /\ closes'[p].fstdout = closes[p].fstdout
         /\ proc'[p].exit_status = proc[p].exit_status]_vars

\* C3: each of fstdin, fstdout, fstderr is closed at most once in the life of
\* a handle, so no close is attempted on an endpoint already closed.
C3_EndpointsClosedOnce ==
  \A p \in Procs :
    closes[p].fstdin <= 1 /\ closes[p].fstdout <= 1 /\ closes[p].fstderr <= 1

\* C4: on POSIX the status proc_exited passes on is the normalized one: the
\* exit code of a child that exited, non-zero for a child a signal ended.
C4_ProcExitedStatusNormalized ==
  \A p \in Procs :
    ~win32 /\ "proc_exited" \in hist[p] =>
      IF child[p].how[1] = "exit" THEN exited[p][1] = child[p].how[2]
      ELSE exited[p][1] # 0

\* The normalized status of a child that ended as how says.
Normalized(how) == IF how[1] = "exit" THEN how[2] ELSE 1

\* C5: wait_process called on a live handle returns only after the child has
\* ended; at its return the handle is not running, the exit callback has been
\* invoked and get_process_exit_status is the normalized status.
C5_WaitReturnsAfterCleanup ==
  [][\A p \in Procs :
       waiting = p /\ waiting' = NoProc /\ is_process_running(p) =>
         /\ child[p].state \in {"zombie", "collected"}
         /\ ~is_process_running(p)'
         /\ exited'[p] = Append(exited[p], Normalized(child[p].how))
         /\ get_process_exit_status(p)' = Normalized(child[p].how)]_vars

\* C6: a spawn() that failed has set *error, has registered no Output Monitor
\* and no Exit Monitor for the record, and no exit callback is invoked for it.
C6_FailedSpawnLeavesNothing ==
  \A p \in Procs :
    st[p] = "failed" =>
      /\ error[p] # ""
      /\ \A w \in watches : w[1] # p
      /\ exited[p] = <<>>
      /\ child[p].state = "none"
C6_Witness ==
  /\ \E p \in Procs : st[p] = "failed" /\ error[p] = "spawn"
  /\ \E q \in Procs : exited[q] # <<>>

\* C7: after a spawn() that failed, on the POSIX and on the Windows path, no
\* pipe endpoint the attempt created is still open.
C7_FailedSpawnClosesPipes ==
  \A p \in Procs : st[p] = "failed" => \A e \in fdtab : e.p # p

C9_OutputBeforeExit ==
  \A p \in Spawned :
    /\ "monitor_stdout" \in hist[p]
    /\ child[p].prog.kind = "echo"
    /\ child[p].how = <<"exit", 0>>
    /\ "proc_exited" \in hist[p]
    => SinkOut(p) = child[p].prog.out /\ exited[p][1] = 0

\* C10: after kill_process with signal 0 on a live handle whose child runs,
\* the exit callback that fires for the handle carries a non-zero status,
\* whether proc_exited or wait_process observes the end of the child.
C10_KilledExitStatusNonZero ==
  \A p \in Procs :
    "killed" \in hist[p] /\ exited[p] # <<>> => exited[p][1] # 0

\* C11: on POSIX every kill() of kill_process is given the process id of the
\* child of the handle, whether the handle is live or not, and the signal is
\* the given number, or SIGKILL when the given number is 0.
C11_KillAddressesOwnChild ==
  \A p \in Procs : \A k \in signals[p] :
    k[1] = p /\ k[3] = (IF k[2] = 0 THEN SIGKILL ELSE k[2])

\* C12: for a handle of a successful spawn(), is_process_running is true in
\* every state before cleanup_process has run for it and false in every state
\* after, whatever is called on the handle then.
C12_LivenessFlag ==
  \A p \in Spawned : is_process_running(p) <=> exited[p] = <<>>
C12_Witness ==
  \E p \in Spawned :
    Len(exited[p]) = 2 /\ "wait_dead" \in hist[p] /\ ~is_process_running(p)

\* C18: a spawn() that succeeds leaves the child watch registered, the stdout
\* watch registered exactly when monitor_stdout was given, and the stderr
\* watch exactly when monitor_stderr was.
C18_SpawnRegistersMonitors ==
  [][\A p \in Procs :
       st[p] = "unused" /\ st'[p] = "spawned" =>
         /\ <<p, "child">> \in watches'
         /\ <<p, "stdout">> \in watches' <=> "monitor_stdout" \in hist'[p]
         /\ <<p, "stderr">> \in watches' <=> "monitor_stderr" \in hist'[p]]_vars
C18_Witness ==
  \E p \in Spawned :
    /\ hist[p] = {"monitor_stderr"}
    /\ watches = {<<p, "stderr">>, <<p, "child">>}

\* C19 (as claimed): on every platform path a malformed cmd makes spawn() fail
\* with *error set and nothing created: no pipe, no child, no watch.
C19_MalformedFailsEverywhere ==
  \A p \in Procs :
    args[p].cmd = "malformed" =>
      /\ st[p] = "failed" /\ error[p] # ""
      /\ \A e \in fdtab : e.p # p
      /\ child[p].state = "none"
      /\ \A w \in watches : w[1] # p

\* C19 (amended): on the POSIX path a malformed cmd makes spawn() fail with
\* the error of the parser and nothing created; the Windows path does not
\* parse cmd, it hands it to cmd.exe.
C19_MalformedFailsPosix ==
  \A p \in Procs :
    ~win32 /\ args[p].cmd = "malformed" =>
      /\ st[p] = "failed" /\ error[p] = "parse"
      /\ \A e \in fdtab : e.p # p
      /\ child[p].state = "none"
      /\ \A w \in watches : w[1] # p
C19_Witness ==
  /\ ~win32
  /\ \E p \in Procs : args[p].cmd = "malformed" /\ st[p] = "failed"
  /\ \E q \in Spawned : args[q].cmd = "ok" /\ fdtab # {}

\* C20: the environment of the child is the set of the entries of the table
\* when spawn() is given one (envi non-zero), and the environment of the
\* program when it is given none.
C20_ChildEnvironment ==
  \A p \in Spawned :
    envp[p] = IF args[p].envi.index # 0
                THEN Range(args[p].envi.t \o args[p].envi.h) ELSE Environ

\* C17: with two handles in use, what is done to a handle leaves the other
\* alone: an endpoint of a handle is open for as long as no close was issued
\* on that field of that handle, a child is waited for only by the watch or
\* the wait_process of its own handle, and a child a signal of kill_process
\* ended was signalled through its own handle.
C17_HandlesIsolated ==
  \A q \in Spawned :
    /\ closes[q].fstdin = 0 => ReaderOpen(fdtab, q, "stdin")
    /\ closes[q].fstdout = 0 => ReaderOpen(fdtab, q, "stdout")
    /\ closes[q].fstderr = 0 => ReaderOpen(fdtab, q, "stderr")
    /\ child[q].state = "reaped" =>
          hist[q] \cap {"proc_exited", "wait_live", "wait_dead"} # {}
    /\ child[q].how = <<"signal", SIGKILL>> => signals[q] # {}

\* The calls of read_process_output made so far.
Calls == UNION {{reads[p][i] : i \in 1..Len(reads[p])} : p \in Procs}
IsEos(r) == r.buf = "NULL" /\ r.error = "NULL"
IsError(r) == r.buf = "NULL" /\ r.error = "set" /\ r.code = "set"

\* The line without its terminator: without the "\r\n" or the "\n" it ends
\* with, and whole when it ends with neither.
Unterminated(line) ==
  LET n == Len(line)
  IN IF n >= 2 /\ line[n - 1] = CR /\ line[n] = LF THEN SubSeq(line, 1, n - 2)
     ELSE IF n >= 1 /\ line[n] = LF THEN SubSeq(line, 1, n - 1)
     ELSE line

\* C13: read_process_output with option 'l' returns the line with one
\* trailing "\n" or "\r\n" removed and nothing else removed: a trailing "\r"
\* with no "\n" after it stays, a line without terminator is unchanged.
C13_ReadLineStripsOneTerminator ==
  \A r \in Calls :
    r.option = "l" /\ r.buf = "data" =>
      r.len = Len(Unterminated(r.line)) /\ r.data = Unterminated(r.line)

\* C14: for every option, a call made at the end of the stream returns NULL
\* with *error NULL, and nothing else does; a call that returns NULL with
\* *error and *code set was made on a descriptor that cannot be read, and a
\* call on such a descriptor with nothing read ahead returns that.
C14_ThreeOutcomes ==
  \A r \in Calls :
    /\ r.atEnd <=> IsEos(r)
    /\ IsError(r) => ~r.fdOk
    /\ ~r.fdOk /\ ~r.pending => IsError(r)
    /\ r.buf = "data" \/ IsEos(r) \/ IsError(r)

\* C15: a call on a handle that is not live and has no pending output
\* returns end-of-stream: NULL with *error NULL.
C15_DeadHandleReadsEos ==
  \A r \in Calls : ~r.live /\ ~r.pending => IsEos(r)

\* C16: when the child has exited and flushed its output, a first call with
\* option 'a' returns the bytes it wrote that were not consumed before, and
\* the call with option 'a' after it returns end-of-stream.
C16_ReadToEndThenEos ==
  \A p \in Spawned :
    /\ Len(reads[p]) >= 2
    /\ reads[p][1].option = "a" /\ reads[p][2].option = "a"
    /\ reads[p][1].ended
    => /\ reads[p][1].buf = "data"
       /\ SinkOut(p) \o reads[p][1].data = child[p].prog.out
       /\ IsEos(reads[p][2])

\* C21: the exit status of a handle is stored once, by cleanup_process, and
\* stays: before the exit callback it is the value spawn left, after it
\* get_process_exit_status is the value the exit callback was given first.
C21_ExitStatusWrittenOnce ==
  \A p \in Spawned :
    IF exited[p] = <<>>
      THEN get_process_exit_status(p) = Unset
      ELSE get_process_exit_status(p) = exited[p][1]

\* A step of read_channel that reads the channel: a turn of its loop.
ReadTurn == rc # NoRc /\ rc' # NoRc /\ (rc' # rc \/ sink' # sink)

\* read_channel passing its entry test and going on to read.
ReadEntry == rc = NoRc /\ rc' # NoRc

\* C22: read_channel reads only for a live handle: it goes on to the loop
\* only when the liveness flag is set at entry, and once the sink has caused
\* the cleanup of the handle inside the loop no further read of the channel
\* is made.
C22_NoReadAfterCleanup ==
  [][/\ ReadEntry => is_process_running(rc'.p)
     /\ ReadTurn => is_process_running(rc.p)]_vars

\* C23: when read_process_output returns, the stdout channel is buffered
\* exactly when its read buffer still holds bytes, so it is never unbuffered
\* with bytes read ahead.
C23_BufferedIffPending ==
  [][\A p \in Procs :
       Len(reads'[p]) > Len(reads[p]) =>
         (cbuf'[p].use_buffer <=> cbuf'[p].read_buf # <<>>)]_vars

\* The return of read_channel after its loop.
ReadReturn == rc # NoRc /\ rc' = NoRc

\* C24: one notification reads chunks of at most BUFSIZ bytes, goes round
\* again only after a read of exactly BUFSIZ, and returns after the first
\* shorter one; a chunk of positive length goes to process_output once, as the
\* next bytes of its stream and with the flag of its channel; a read of
\* nothing is not forwarded.
C24_ChunksForwarded ==
  [][/\ ReadTurn =>
          LET p == rc.p
              data == IF rc.k = "stdout" THEN pipe[p].out ELSE pipe[p].err
              n == rc'.len
          IN /\ rc.len \in {Unset, BUFSIZ}
             /\ n \in 0..BUFSIZ
             /\ IF n > 0
                  THEN /\ n <= Len(data)
                       /\ sink' = [sink EXCEPT ![p] =
                            Append(@, [stdout |-> rc.k = "stdout", data |-> SubSeq(data, 1, n)])]
                  ELSE sink' = sink
     /\ ReadReturn => rc.len \in 0..(BUFSIZ - 1) /\ sink' = sink
     /\ \A p \in Procs :
          /\ IsPrefix(Concat(sink'[p], TRUE), child'[p].prog.out)
          /\ IsPrefix(Concat(sink'[p], FALSE), child'[p].prog.err)]_vars
C24_Witness ==
  \E p \in Spawned :
    /\ rc = NoRc
    /\ \E i \in 1..(Len(sink[p]) - 1) :
         /\ sink[p][i].stdout /\ Len(sink[p][i].data) = BUFSIZ
         /\ sink[p][i + 1].stdout /\ Len(sink[p][i + 1].data) = 1
    /\ \E j \in 1..Len(sink[p]) : ~sink[p][j].stdout

\* C25: an output watch stays after a notification exactly when the handle
\* is live, the notification carried readable data and it carried no
\* hang-up: read_channel enters its loop only with data on a live handle,
\* its return keeps the watch exactly when the handle is still live and the
\* condition had no hang-up, and a watch that goes without a cleanup goes
\* at a notification without data, on a dead handle, or with a hang-up.
C25_WatchKeptIffLiveDataNoHup ==
  [][\A p \in Procs, k \in {"stdout", "stderr"} :
       /\ ReadEntry /\ rc'.p = p /\ rc'.k = k =>
            /\ is_process_running(p) /\ G_IO_IN(p, k)
            /\ rc'.hup = G_IO_HUP(p, k)
            /\ <<p, k>> \in watches'
       /\ ReadReturn /\ rc.p = p /\ rc.k = k =>
            (<<p, k>> \in watches' <=> is_process_running(p) /\ ~rc.hup)
       /\ rc = NoRc /\ <<p, k>> \in watches /\ <<p, k>> \notin watches'
            /\ exited'[p] = exited[p] =>
            ~is_process_running(p) \/ ~G_IO_IN(p, k)]_vars
C25_Witness ==
  \E p \in Spawned :
    /\ rc = NoRc /\ is_process_running(p)
    /\ <<p, "stdout">> \in watches
    /\ \E i \in 1..Len(sink[p]) : sink[p][i].stdout
    /\ "monitor_stderr" \in hist[p] /\ <<p, "stderr">> \notin watches

\* A step of read_channel for the watch k of record p: the return at its
\* entry test, the entry into the loop, a turn of the loop, or the return.
Notified(p, k) ==
  \/ /\ rc = NoRc /\ rc' = NoRc
     /\ <<p, k>> \in watches /\ <<p, k>> \notin watches'
     /\ exited'[p] = exited[p]
  \/ ReadEntry /\ rc'.p = p /\ rc'.k = k
  \/ (ReadTurn \/ ReadReturn) /\ rc.p = p /\ rc.k = k

\* C26: the two output watches of a handle are independent: a step of
\* read_channel for one of them, its deregistration included, leaves the
\* other watch as registered as it was, the other stream's descriptor and
\* unread bytes as they were, and the child watch registered.
C26_MonitorsIndependent ==
  [][\A p \in Procs, k \in {"stdout", "stderr"} :
       Notified(p, k) =>
         LET o == IF k = "stdout" THEN "stderr" ELSE "stdout"
             f == IF k = "stdout" THEN "err" ELSE "out"
         IN /\ <<p, o>> \in watches' <=> <<p, o>> \in watches
            /\ <<p, "child">> \in watches' <=> <<p, "child">> \in watches
            /\ pipe'[p][f] = pipe[p][f]
            /\ proc' = proc /\ fdtab' = fdtab]_vars
C26_Witness ==
  \E p \in Spawned :
    /\ "monitor_stdout" \in hist[p] /\ <<p, "stdout">> \notin watches
    /\ \E i \in 1..Len(sink[p]) : sink[p][i].stdout
    /\ <<p, "stderr">> \in watches /\ pipe[p].err # <<>>
    /\ <<p, "child">> \in watches

\* C27: a run of cleanup_process for a handle leaves no source that carries
\* the handle, whichever watches spawn added and whichever had gone before,
\* and leaves every source of another handle registered; a second run finds
\* nothing to remove and removes nothing.
C27_CleanupRemovesOwnSources ==
  [][\A p \in Procs :
       exited'[p] # exited[p] => watches' = {w \in watches : w[1] # p}]_vars
C27_Witness ==
  \E p, q \in Spawned :
    /\ p # q
    /\ Len(exited[p]) = 2
    /\ {"monitor_stdout", "monitor_stderr"} \subseteq hist[p]
    /\ exited[q] = <<>>
    /\ {<<q, "stdout">>, <<q, "child">>} \subseteq watches

\* A step that finalizes the record: stores its pid or exit status, closes
\* an output descriptor of it, or calls the exit callback.
Finalized(p) ==
  \/ proc'[p].pid # proc[p].pid
  \/ proc'[p].exit_status # proc[p].exit_status
  \/ exited'[p] # exited[p]
  \/ closes'[p].fstdout # closes[p].fstdout
  \/ closes'[p].fstderr # closes[p].fstderr

\* C28: a record, once spawned, is finalized only by wait_process returning
\* for it or by proc_exited dispatched from its child watch; no step of
\* read_channel, hang-up on both streams included, and no read, write or
\* kill does any of it.
C28_FinalizedOnlyByExitOrWait ==
  [][\A p \in Procs :
       st'[p] = st[p] /\ Finalized(p) =>
         \/ waiting = p /\ waiting' = NoProc
         \/ /\ Idle /\ <<p, "child">> \in watches /\ <<p, "child">> \notin watches'
            /\ "proc_exited" \in hist'[p]]_vars
C28_Witness ==
  \E p \in Spawned :
    /\ {"monitor_stdout", "monitor_stderr", "killed"} \subseteq hist[p]
    /\ <<p, "stdout">> \notin watches /\ <<p, "stderr">> \notin watches
    /\ written[p] # <<>>
    /\ is_process_running(p) /\ exited[p] = <<>>
    /\ get_process_exit_status(p) = Unset
    /\ closes[p].fstdout = 0 /\ closes[p].fstderr = 0

\* C29: process_output is called for a handle only while the handle is live
\* and the watch of the stream is registered, so never after the exit
\* callback has been called for it.
C29_NoOutputAfterExit ==
  [][\A p \in Procs :
       sink'[p] # sink[p] =>
         /\ exited[p] = <<>> /\ is_process_running(p)
         /\ <<p, IF sink'[p][Len(sink'[p])].stdout THEN "stdout" ELSE "stderr">> \in watches]_vars

\* C30: with a hang-up notification of an output watch and the child watch
\* both pending, cleanup runs once: the step that finalizes the record finds
\* it never finalized before and is no step of read_channel, whether
\* proc_exited is dispatched first, or read_channel first and proc_exited
\* after it, or the sink calls wait_process inside read_channel.
C30_OneCleanupPerIteration ==
  [][\A p \in Procs :
       st'[p] = st[p] /\ Finalized(p) =>
         /\ exited[p] = <<>> /\ Len(exited'[p]) = 1
         /\ closes'[p].fstdout = 1 /\ closes'[p].fstderr = 1
         /\ \A w \in watches' : w[1] # p
         /\ \A k \in {"stdout", "stderr"} : ~Notified(p, k)]_vars
C30_Witness ==
  \E p \in Spawned :
    /\ rc.p = p /\ rc.hup /\ waiting = NoProc
    /\ "sink_wait" \in hist[p]
    /\ Len(exited[p]) = 1
    /\ "monitor_stderr" \in hist[p]

\* C31: the channel an operation dereferences is allocated: no
\* read_process_output is made on a handle whose cstdout has been freed with
\* its watch.
C31_ChannelAllocatedWhenRead ==
  [][\A p \in Procs :
       Len(reads'[p]) > Len(reads[p]) => ~ChannelFreed(p)]_vars

RECURSIVE ReadData(_)
\* The bytes the calls of rs returned, in call order.
ReadData(rs) ==
  IF rs = <<>> THEN <<>>
  ELSE (IF Head(rs).buf = "data" THEN Head(rs).data ELSE <<>>) \o ReadData(Tail(rs))

\* The bytes the child has written to stdout so far.
WrittenOut(p) == SubSeq(child[p].prog.out, 1, child[p].nout)

\* C32: on an unmonitored stdout read with 'L', 'a' and 'n' only, the
\* buffers returned, in call order, are a prefix of what the child wrote, all
\* of it once a call has reported the end of the stream, and an 'n' read
\* with count k returns at most k bytes.
C32_ReadsPartitionStream ==
  \A p \in Spawned :
    ("monitor_stdout" \notin hist[p] /\ \A i \in 1..Len(reads[p]) : reads[p][i].option # "l") =>
      /\ IsPrefix(ReadData(reads[p]), WrittenOut(p))
      /\ \A i \in 1..Len(reads[p]) :
           /\ IsEos(reads[p][i]) => ReadData(SubSeq(reads[p], 1, i)) = WrittenOut(p)
           /\ reads[p][i].option = "n" => Len(reads[p][i].data) <= reads[p][i].count

\* C33: an 'l' read tests buf[*len - 1] only with *len > 0: not for a line of
\* no bytes (end of stream, a failed or empty read), not a second time for a
\* line that was "\n" alone, and *len never ends above the bytes read.
C33_StripStaysInBuffer ==
  \A r \in Calls :
    r.option = "l" =>
      /\ r.line # <<>>
      /\ r.line # <<LF>>
      /\ r.len <= Len(r.line)

\* C35: on the POSIX path the loop of spawn() writes no more entries into
\* envp than envc, the lua_rawlen of the table, whatever the table holds.
C35_EnvpWritesWithinEnvc ==
  \A p \in Procs :
    ~win32 /\ args[p].cmd = "ok" =>
      EnvWrites(args[p].envi) <= envc(args[p].envi)

\* C34: the history holds at most 10 texts, no two adjacent ones equal; a
\* text equal to the most recent one leaves it as it is, and any other text
\* is appended, the oldest going only when there were 10 already: every step
\* that changes the store is such an append.
C34_HistoryBounded ==
  [][/\ Len(find_history') <= 10
     /\ \A i \in 1..(Len(find_history') - 1) : find_history'[i] # find_history'[i + 1]
     /\ \E text \in Texts :
          /\ find_history # <<>> => text # find_history[Len(find_history)]
          /\ find_history' =
               Append(IF Len(find_history) = 10 THEN Tail(find_history) ELSE find_history,
                      text)]_vars
====
